---------------------------- MODULE Spec2Model ----------------------------
(***************************************************************************)
(* DnsLiar: a DNS forwarder whose configuration (forwarders, binds,        *)
(* blackhole addresses, matchclasses) is fetched from a Redis store at     *)
(* startup and rebuilt on SIGHUP.                                          *)
(*                                                                         *)
(* The module models src/main.rs (main, setup_binds, handle_signals) and   *)
(* src/redis_mod.rs (build_manager, build_config, get, exists).            *)
(*                                                                         *)
(*   Spec      the whole process: the main task, the signals task spawned  *)
(*             by it, the config cell (ArcSwap) and the request handlers   *)
(*             that read the cell.                                         *)
(*   SpecPure  build_config and setup_binds as functions of what the store *)
(*             returns and of which sockets the OS lets the process bind.  *)
(*   SpecExists  exists as a function of the store and of its arguments.   *)
(***************************************************************************)
EXTENDS Integers, Sequences, FiniteSets, TLC

VARIABLES
    main_pc,        \* position of main (main.rs 125-156)
    main_build,     \* the build_config call of main: [pc, config]
    config,         \* main's `config` (main.rs 133): Option<Config>
    resolver,       \* forwarders the resolver was built from (main.rs 134)
    arc_config,     \* the ArcSwap<Config> cell (main.rs 137): Option<Config>
    binds_idx,      \* setup_binds: index of the next bind of the for loop
    server,         \* setup_binds: [successful_binds_count, listeners, attempted]
    sig_pc,         \* position of the handle_signals task
    sig_build,      \* the build_config call of handle_signals: [pc, config]
    pending,        \* signals delivered to the process and not yet yielded by the stream
    signals_closed, \* signals_handler.close() was called (main.rs 152)
    signal,         \* handle_signals: the signal of the current turn of the loop
    built,          \* history: the Configuration of the last build_config handed to the cell
    p_pc,           \* SpecPure: "off", "input", "built", "bound"
    p_in,           \* SpecPure: what the store returns for each key, and the build profile
    p_out,          \* SpecPure: the result of build_config(p_in)
    p_binds,        \* SpecPure: the result of setup_binds on p_out's Configuration
    e_pc,           \* SpecExists: "off", "input", "done"
    e_in,           \* SpecExists: the store, and the arguments of exists
    e_out           \* SpecExists: the result of exists(e_in)

vars == <<main_pc, main_build, config, resolver, arc_config, binds_idx, server,
          sig_pc, sig_build, pending, signals_closed, built, signal,
          p_pc, p_in, p_out, p_binds, e_pc, e_in, e_out>>

sys_vars == <<main_pc, main_build, config, resolver, arc_config, binds_idx, server,
              sig_pc, sig_build, pending, signals_closed, built, signal>>

pure_vars == <<p_pc, p_in, p_out, p_binds>>

exists_vars == <<e_pc, e_in, e_out>>

-----------------------------------------------------------------------------
(* Bounds *)

\* longest list a store fetch (HKEYS) returns
MaxFetched == 2

\* longest binds list a store fetch returns in the whole-process specification
MaxSysBinds == 2

\* modulus of the u8 counters of build_config
U8Mod == 256

-----------------------------------------------------------------------------
(* Option<T>: None is the empty sequence, Some(v) the one-element sequence *)

None == <<>>

Some(v) == <<v>>

is_some(o) == Len(o) = 1

unwrap(o) == o[1]

Range(s) == {s[i] : i \in 1..Len(s)}

\* sequences over S of length at most n without repeated entries: HKEYS returns
\* the field names of a hash, which are distinct
RECURSIVE DistinctSeqs(_, _)
DistinctSeqs(S, n) ==
    IF n = 0 THEN {<<>>}
    ELSE LET shorter == DistinctSeqs(S, n - 1)
         IN  shorter \cup
             {Append(p[1], p[2]) : p \in {q \in shorter \X S : q[2] \notin Range(q[1])}}

-----------------------------------------------------------------------------
(* Strings the store holds.  Addresses are literal strings; a bind spec is  *)
(* the sequence of its tokens, so that split("=") is computed.              *)

\* entries of blackhole_ips_<daemon_id>
BlackholeEntries == {"10.0.0.1", "::1", "junk"}

\* entries of matchclasses_<daemon_id>
MatchclassEntries == {"ads", "adult"}

\* entries of forwarders_<daemon_id>
ForwarderEntries == {"1.1.1.1:53", "[::1]:5353", "9.9.9.9"}

\* the i-th of a run of distinct valid forwarder entries, 10.0.<i / 256>.<i % 256>:53
LongForwarder(i) ==
    "10.0." \o ToString(i \div U8Mod) \o "." \o ToString(i % U8Mod) \o ":53"

\* as many of them as a forwarders set needs to pass the range of a u8 count
LongForwarderEntries == [i \in 1..(U8Mod + 1) |-> LongForwarder(i)]

\* forwarders sets around the range of a u8 count: one entry short of 256
\* entries, 256 entries, one more, and 256 valid entries after an invalid one
LongForwarderLists ==
    {SubSeq(LongForwarderEntries, 1, n) : n \in {U8Mod - 1, U8Mod, U8Mod + 1}}
        \cup {<<"9.9.9.9">> \o SubSeq(LongForwarderEntries, 1, U8Mod)}

\* entries of binds_<daemon_id>: UDP=0.0.0.0:53, TCP=0.0.0.0:53, BOGUS=xyz,
\* UDP=xyz and the bare token UDP
BindEntries ==
    { <<"UDP", "=", "0.0.0.0:53">>,
      <<"TCP", "=", "0.0.0.0:53">>,
      <<"BOGUS", "=", "xyz">>,
      <<"UDP", "=", "xyz">>,
      <<"UDP">> }

\* The store contents the whole-process specification draws from
SysBlackholeEntries == {"10.0.0.1", "::1"}

SysMatchclassEntries == {"ads"}

SysForwarderEntries == {"1.1.1.1:53", "9.9.9.9"}

SysBindEntries == { <<"UDP", "=", "0.0.0.0:53">>, <<"UDP">> }

\* DnsLrResult<Vec<String>> of get: Ok(list) or Err
FetchOk(list) == [ok |-> TRUE, val |-> list]

FetchErr == [ok |-> FALSE, val |-> <<>>]

Fetches(entries) == {FetchOk(l) : l \in DistinctSeqs(entries, MaxFetched)} \cup {FetchErr}

-----------------------------------------------------------------------------
(* Parsers of the standard library, on the strings above *)

\* str::parse::<Ipv4Addr>: Some(address) or None
ParseIpv4(s) ==
    IF s = "10.0.0.1" THEN Some([family |-> "v4", addr |-> s]) ELSE None

\* str::parse::<Ipv6Addr>
ParseIpv6(s) ==
    IF s = "::1" THEN Some([family |-> "v6", addr |-> s]) ELSE None

\* str::parse::<SocketAddr>: an address with a port; a bare address is an error
ParseSocketAddr(s) ==
    CASE s = "1.1.1.1:53" -> Some([family |-> "v4", addr |-> "1.1.1.1", port |-> 53])
      [] s = "[::1]:5353" -> Some([family |-> "v6", addr |-> "::1", port |-> 5353])
      [] s \in Range(LongForwarderEntries) ->
            Some([family |-> "v4", addr |-> SubSeq(s, 1, Len(s) - 3), port |-> 53])
      [] OTHER -> None

\* str::split("="): the pieces between the separators, one more than separators
RECURSIVE Split(_)
Split(s) ==
    IF \A i \in 1..Len(s) : s[i] # "=" THEN <<s>>
    ELSE LET k == CHOOSE i \in 1..Len(s) : s[i] = "=" /\ \A j \in 1..(i - 1) : s[j] # "="
         IN  <<SubSeq(s, 1, k - 1)>> \o Split(SubSeq(s, k + 1, Len(s)))

\* an address UdpSocket::bind / TcpListener::bind can resolve
Resolves(addr) == addr = <<"0.0.0.0:53">>

-----------------------------------------------------------------------------
(* redis_mod.rs: build_config.  Each `get(...).await` is a suspension point; *)
(* the operators below are the code that runs after each fetch returns, up   *)
(* to the next fetch or to the return.                                       *)

\* CONFILE.daemon_id
DaemonId == "d1"

\* the Config build_config starts from
EmptyConfig ==
    [ daemon_id     |-> DaemonId,
      forwarders    |-> <<>>,
      binds         |-> <<>>,
      is_filtering  |-> FALSE,
      matchclasses  |-> None,
      blackhole_ips |-> None ]

\* the key `get` asks the store for
Key(kind) == <<kind, DaemonId>>

\* a build that goes on to fetch `next`
Continue(next, cfg) == [status |-> "fetch", pc |-> next, config |-> cfg, err |-> "none"]

\* return Err(WrappedErrors::DNSlrError(kind)): the local config is dropped
ReturnErr(kind) == [status |-> "Err", pc |-> "returned", config |-> EmptyConfig, err |-> kind]

\* return Ok(config)
ReturnOk(cfg) == [status |-> "Ok", pc |-> "returned", config |-> cfg, err |-> "none"]

\* an `expect` on an Err or None: the calling task panics
Panic(msg) == [status |-> "panic", pc |-> "panicked", config |-> EmptyConfig, err |-> msg]

\* the state of a build_config call that has not fetched anything yet
NewBuild == [pc |-> "blackhole_ips", config |-> EmptyConfig]

\* no build_config call in progress
NoBuild == [pc |-> "none", config |-> EmptyConfig]

\* AfterBlackholeIps without the short circuit of lines 44-47: a count other
\* than 2 goes on to the fetch of matchclasses
AfterBlackholeIps_NoShortCircuit(cfg, r) ==
    IF ~r.ok THEN Panic("Error fetching blackhole_ips")
    ELSE IF Len(r.val) # 2 THEN Continue("matchclasses", cfg)
    ELSE IF ~is_some(ParseIpv4(r.val[1])) THEN Panic("Error parsing blackhole_ipv4")
    ELSE IF ~is_some(ParseIpv6(r.val[2])) THEN Panic("Error parsing blackhole_ipv6")
    ELSE Continue("matchclasses",
                  [cfg EXCEPT !.blackhole_ips =
                      Some(<<unwrap(ParseIpv4(r.val[1])), unwrap(ParseIpv6(r.val[2]))>>)])

\* lines 42-53: after the fetch of blackhole_ips
AfterBlackholeIps(cfg, r) ==
    IF ~r.ok THEN Panic("Error fetching blackhole_ips")
    ELSE IF Len(r.val) # 2 THEN Continue("forwarders", cfg)
    ELSE IF ~is_some(ParseIpv4(r.val[1])) THEN Panic("Error parsing blackhole_ipv4")
    ELSE IF ~is_some(ParseIpv6(r.val[2])) THEN Panic("Error parsing blackhole_ipv6")
    ELSE Continue("matchclasses",
                  [cfg EXCEPT !.blackhole_ips =
                      Some(<<unwrap(ParseIpv4(r.val[1])), unwrap(ParseIpv6(r.val[2]))>>)])

\* AfterMatchclasses with line 61 left out: filtering is switched on and the
\* matchclasses are not kept
AfterMatchclasses_FlagOnly(cfg, r) ==
    IF ~r.ok THEN Panic("Error fetching matchclasses")
    ELSE IF Len(r.val) = 0 THEN Continue("forwarders", cfg)
    ELSE Continue("forwarders", [cfg EXCEPT !.is_filtering = TRUE])

\* AfterMatchclasses without the test of line 56: an empty set switches
\* filtering on
AfterMatchclasses_NoEmptyTest(cfg, r) ==
    IF ~r.ok THEN Panic("Error fetching matchclasses")
    ELSE Continue("forwarders",
                  [cfg EXCEPT !.is_filtering = TRUE, !.matchclasses = Some(r.val)])

\* lines 54-65: after the fetch of matchclasses
AfterMatchclasses(cfg, r) ==
    IF ~r.ok THEN Panic("Error fetching matchclasses")
    ELSE IF Len(r.val) = 0 THEN Continue("forwarders", cfg)
    ELSE Continue("forwarders",
                  [cfg EXCEPT !.is_filtering = TRUE, !.matchclasses = Some(r.val)])

\* ForwarderTurn with the parsed address put in front of those before it
ForwarderTurn_Prepend(st, forwarder, checks) ==
    IF st.overflow THEN st
    ELSE IF ~is_some(ParseSocketAddr(forwarder)) THEN st
    ELSE IF checks /\ st.valid + 1 >= U8Mod THEN [st EXCEPT !.overflow = TRUE]
    ELSE [overflow |-> FALSE,
          forwarders |-> <<unwrap(ParseSocketAddr(forwarder))>> \o st.forwarders,
          valid |-> (st.valid + 1) % U8Mod]

\* lines 76-86: one turn of the loop over the fetched forwarders: an entry that
\* does not parse is passed over, one that parses is pushed and counted;
\* valid_forwarder_count is a u8 whose increment panics on overflow in a build
\* with overflow checks and wraps in one without.  After a panic no turn runs.
ForwarderTurn(st, forwarder, checks) ==
    IF st.overflow THEN st
    ELSE IF ~is_some(ParseSocketAddr(forwarder)) THEN st
    ELSE IF checks /\ st.valid + 1 >= U8Mod THEN [st EXCEPT !.overflow = TRUE]
    ELSE [overflow |-> FALSE,
          forwarders |-> Append(st.forwarders, unwrap(ParseSocketAddr(forwarder))),
          valid |-> (st.valid + 1) % U8Mod]

\* the turns for list[lo] to list[hi], in order, from the loop state st; the
\* range is halved so that the evaluation stays shallow on long lists
RECURSIVE ForwardersLoop(_, _, _, _, _)
ForwardersLoop(list, lo, hi, st, checks) ==
    IF lo > hi THEN st
    ELSE IF lo = hi THEN ForwarderTurn(st, list[lo], checks)
    ELSE LET mid == (lo + hi) \div 2
             first == ForwardersLoop(list, lo, mid, st, checks)
         IN  IF first.overflow THEN first
             ELSE ForwardersLoop(list, mid + 1, hi, first, checks)

\* lines 75-87: the loop over the fetched forwarders
ParseForwarders(list, acc, valid, checks) ==
    ForwardersLoop(list, 1, Len(list),
                   [overflow |-> FALSE, forwarders |-> acc, valid |-> valid], checks)

\* lines 88-95: the if / else if chain on the two counts; TRUE when it returns Err
ForwardersGate(valid_forwarder_count, forwarders_count) ==
    IF valid_forwarder_count = forwarders_count THEN FALSE
    ELSE IF valid_forwarder_count < forwarders_count THEN FALSE
    ELSE valid_forwarder_count = 0

\* lines 67-96: after the fetch of forwarders
AfterForwarders(cfg, r, checks) ==
    IF ~r.ok THEN Panic("Error fetching forwarders")
    ELSE LET forwarders_count == Len(r.val) % U8Mod
             parsed == ParseForwarders(r.val, cfg.forwarders, 0, checks)
         IN  IF forwarders_count = 0 THEN ReturnErr("SetupForwardersError")
             ELSE IF parsed.overflow THEN Panic("attempt to add with overflow")
             ELSE IF ForwardersGate(parsed.valid, forwarders_count)
                  THEN ReturnErr("SetupForwardersError")
             ELSE Continue("binds", [cfg EXCEPT !.forwarders = parsed.forwarders])

\* AfterBinds without the test of line 99: an empty binds set is returned
AfterBinds_NoEmptyTest(cfg, r) ==
    IF ~r.ok THEN Panic("Error fetching binds")
    ELSE ReturnOk([cfg EXCEPT !.binds = r.val])

\* lines 97-105: after the fetch of binds
AfterBinds(cfg, r) ==
    IF ~r.ok THEN Panic("Error fetching binds")
    ELSE IF Len(r.val) = 0 THEN ReturnErr("SetupBindingError")
    ELSE ReturnOk([cfg EXCEPT !.binds = r.val])

\* the code that runs when the fetch a build is waiting for returns r
BuildStep(b, r, checks) ==
    CASE b.pc = "blackhole_ips" -> AfterBlackholeIps(b.config, r)
      [] b.pc = "matchclasses"  -> AfterMatchclasses(b.config, r)
      [] b.pc = "forwarders"    -> AfterForwarders(b.config, r, checks)
      [] b.pc = "binds"         -> AfterBinds(b.config, r)

\* build_config run to its end against a store that answers inp[kind] for each
\* kind; `requests` lists the keys asked for, in order
RECURSIVE RunBuild(_, _, _, _)
RunBuild(b, inp, checks, requests) ==
    LET step == BuildStep(b, inp[b.pc], checks)
        asked == Append(requests, Key(b.pc))
    IN  IF step.status = "fetch"
        THEN RunBuild([pc |-> step.pc, config |-> step.config], inp, checks, asked)
        ELSE [status |-> step.status, config |-> step.config, err |-> step.err,
              requests |-> asked]

build_config(inp, checks) == RunBuild(NewBuild, inp, checks, <<>>)

-----------------------------------------------------------------------------
(* main.rs: setup_binds *)

\* ServerFuture::new(handler): nothing registered, nothing counted
NewServer == [successful_binds_count |-> 0, listeners |-> <<>>, skipped |-> <<>>]

\* lines 62-66 and 69-73: bind, then register the socket or warn and continue
TryBind(srv, bind, proto, addr, os_ok) ==
    IF Resolves(addr) /\ os_ok
    THEN [status |-> "bound",
          server |-> [srv EXCEPT !.listeners = Append(@, [proto |-> proto, addr |-> addr]),
                                 !.successful_binds_count = @ + 1]]
    ELSE [status |-> "skipped", server |-> [srv EXCEPT !.skipped = Append(@, bind)]]

\* lines 58-80: one turn of the for loop.  splits[1] is read in the UDP and TCP
\* arms only, and panics when the bind holds no "="
BindStep(srv, bind, os_ok) ==
    LET splits == Split(bind)
    IN  IF splits[1] \in {<<"UDP">>, <<"TCP">>}
        THEN IF Len(splits) < 2
             THEN [status |-> "panic", server |-> srv]
             ELSE TryBind(srv, bind, splits[1][1], splits[2], os_ok)
        ELSE [status |-> "skipped", server |-> [srv EXCEPT !.skipped = Append(@, bind)]]

\* lines 82-91: the if / else if chain on the two counts
SetupBindsGate(successful_binds_count, bind_count) ==
    IF successful_binds_count = bind_count THEN "Ok"
    ELSE IF successful_binds_count < bind_count THEN "Ok"
    ELSE IF successful_binds_count = 0 THEN "Err"
    ELSE "Ok"

\* setup_binds run to its end; os[i] tells whether the OS lets the i-th bind
\* succeed; `attempted` counts the turns of the loop that ran
RECURSIVE RunBinds(_, _, _, _)
RunBinds(srv, binds, i, os) ==
    IF i > Len(binds)
    THEN [status |-> SetupBindsGate(srv.successful_binds_count, Len(binds)),
          server |-> srv, attempted |-> Len(binds)]
    ELSE LET step == BindStep(srv, binds[i], os[i])
         IN  IF step.status = "panic"
             THEN [status |-> "panic", server |-> step.server, attempted |-> i]
             ELSE RunBinds(step.server, binds, i + 1, os)

setup_binds(cfg, os) == RunBinds(NewServer, cfg.binds, 1, os)

-----------------------------------------------------------------------------
(* redis_mod.rs: exists *)

\* the keys a store may hold: two lookup keys, and keys named as record types
StoreKeys == {"ads.example.", "track.example.", "A", "AAAA"}

\* the lookup keys exists is called with
Fullmatches == {"ads.example.", "track.example."}

\* the query types exists is called with; the caller passes A or AAAA only
RecordTypes == {"RecordType::A", "RecordType::AAAA", "RecordType::MX"}

\* how the store answers a command: with its reply, not at all (the connection
\* fails or the server answers with an error), or with a reply that is not an
\* integer
StoreModes == {"reply", "error", "not_integer"}

\* a reply value of the store
ValueInt(n) == [type |-> "int", int |-> n]

ValueData == [type |-> "data", int |-> 0]

\* the EXISTS command of the store: how many of the keys named by args it
\* holds, a key named twice counted twice
RECURSIVE EXISTS(_, _)
EXISTS(keys, args) ==
    IF args = <<>> THEN 0
    ELSE (IF Head(args) \in keys THEN 1 ELSE 0) + EXISTS(keys, Tail(args))

\* lines 120-125: the command is sent and its answer awaited
req_packed_command(st, cmd) ==
    CASE st.mode = "error"       -> [ok |-> FALSE, val |-> ValueData]
      [] st.mode = "not_integer" -> [ok |-> TRUE, val |-> ValueData]
      [] st.mode = "reply"       -> [ok |-> TRUE, val |-> ValueInt(EXISTS(st.keys, Tail(cmd)))]

\* from_redis_value with a reply of 1 as the only one read as true
from_redis_value_IsOne(v) ==
    IF v.type = "int" THEN [ok |-> TRUE, val |-> v.int = 1]
    ELSE [ok |-> FALSE, val |-> FALSE]

\* line 127: the answer decoded as a bool: an integer is true unless it is 0
from_redis_value(v) ==
    IF v.type = "int" THEN [ok |-> TRUE, val |-> v.int # 0]
    ELSE [ok |-> FALSE, val |-> FALSE]

\* lines 108-129: exists; `requests` lists the commands sent to the store
exists(st, fullmatch, qtype) ==
    IF qtype \notin {"RecordType::A", "RecordType::AAAA"}
    THEN [status |-> "panic", val |-> FALSE, requests |-> <<>>]
    ELSE LET name == IF qtype = "RecordType::A" THEN "A" ELSE "AAAA"
             cmd == <<"EXISTS", fullmatch, name>>
             ser_answer == req_packed_command(st, cmd)
             deser_answer == from_redis_value(ser_answer.val)
         IN  IF ~ser_answer.ok
             THEN [status |-> "Err", val |-> FALSE, requests |-> <<cmd>>]
             ELSE IF ~deser_answer.ok
             THEN [status |-> "Err", val |-> FALSE, requests |-> <<cmd>>]
             ELSE [status |-> "Ok", val |-> deser_answer.val, requests |-> <<cmd>>]

\* exists was not called
NoExistsInput ==
    [store |-> [keys |-> {}, mode |-> "error"], fullmatch |-> "ads.example.",
     qtype |-> "RecordType::A"]

NotAsked == [status |-> "none", val |-> FALSE, requests |-> <<>>]

-----------------------------------------------------------------------------
(* The whole process: main.rs main and handle_signals *)

Signal == {"SIGHUP", "SIGUSR1", "SIGUSR2"}

\* what the store may answer to the fetch a build is waiting for
SysFetches(pc) ==
    CASE pc = "blackhole_ips" -> Fetches(SysBlackholeEntries)
      [] pc = "matchclasses"  -> Fetches(SysMatchclassEntries)
      [] pc = "forwarders"    -> Fetches(SysForwarderEntries)
      [] pc = "binds"         -> {FetchOk(l) : l \in DistinctSeqs(SysBindEntries, MaxSysBinds)}
                                    \cup {FetchErr}

\* the whole-process specification runs a build without overflow checks (the
\* release profile); the profiles differ from 256 forwarders on only
SysOverflowChecks == FALSE

\* main has returned or panicked: the process is gone
Exited == main_pc \in {"returned_ok", "returned_err", "panicked"}

\* the signals task has ended: its loop finished or it panicked
SigFinished == sig_pc \in {"finished", "panicked"}

\* main returns or panics: the runtime is dropped, and a signals task that has
\* not ended is dropped with it at the await it is suspended on
DropRuntime(pc) ==
    CASE pc \in {"not_spawned", "finished", "panicked"} -> pc
      [] pc = "idle" -> "dropped_idle"
      [] OTHER -> "dropped_in_build"

Init ==
    /\ main_pc = "start"
    /\ main_build = NoBuild
    /\ config = None
    /\ resolver = None
    /\ arc_config = None
    /\ binds_idx = 0
    /\ server = NewServer
    /\ sig_pc = "not_spawned"
    /\ sig_build = NoBuild
    /\ pending = {}
    /\ signals_closed = FALSE
    /\ built = None
    /\ signal = "none"
    /\ p_pc = "off"
    /\ p_in = [blackhole_ips |-> FetchErr, matchclasses |-> FetchErr,
               forwarders |-> FetchErr, binds |-> FetchErr, checks |-> FALSE]
    /\ p_out = [status |-> "none", config |-> EmptyConfig, err |-> "none", requests |-> <<>>]
    /\ p_binds = [status |-> "none", server |-> NewServer, attempted |-> 0]
    /\ e_pc = "off"
    /\ e_in = NoExistsInput
    /\ e_out = NotAsked

\* main.rs 127-130: the three signals are registered; from here on a signal is
\* queued for the stream instead of ending the process
MainRegisterSignals ==
    /\ main_pc = "start"
    /\ main_pc' = "build_manager"
    /\ UNCHANGED <<main_build, config, resolver, arc_config, binds_idx, server, sig_pc,
                   sig_build, pending, signals_closed, built>>
    /\ UNCHANGED <<signal>>
    /\ UNCHANGED pure_vars
    /\ UNCHANGED exists_vars

\* main.rs 132, redis_mod.rs 18-27: build_manager returns the manager or panics
\* in one of its `expect`s
MainBuildManager ==
    /\ main_pc = "build_manager"
    /\ \E ok \in BOOLEAN :
          /\ main_pc' = IF ok THEN "build_config" ELSE "panicked"
          /\ main_build' = IF ok THEN NewBuild ELSE NoBuild
    /\ UNCHANGED <<config, resolver, arc_config, binds_idx, server, sig_pc,
                   sig_build, pending, signals_closed, built>>
    /\ UNCHANGED <<signal>>
    /\ UNCHANGED pure_vars
    /\ UNCHANGED exists_vars

\* MainBuildConfig without the `?` of line 133: main goes on after a build
\* that returned Err, with the Config that build had
MainBuildConfig_NoGate ==
    /\ main_pc = "build_config"
    /\ \E r \in SysFetches(main_build.pc) :
          LET step == BuildStep(main_build, r, SysOverflowChecks)
          IN  /\ main_pc' = CASE step.status = "fetch" -> "build_config"
                              [] step.status = "Ok"    -> "spawn"
                              [] step.status = "Err"   -> "spawn"
                              [] step.status = "panic" -> "panicked"
              /\ main_build' = IF step.status = "fetch"
                               THEN [pc |-> step.pc, config |-> step.config]
                               ELSE NoBuild
              /\ config' = IF step.status \in {"Ok", "Err"} THEN Some(step.config) ELSE None
    /\ UNCHANGED <<resolver, arc_config, binds_idx, server, sig_pc,
                   sig_build, pending, signals_closed, built>>
    /\ UNCHANGED <<signal>>
    /\ UNCHANGED pure_vars
    /\ UNCHANGED exists_vars

\* main.rs 133: one fetch of the startup build_config returns.  Err leaves main
\* through `?`, a panic unwinds main
MainBuildConfig ==
    /\ main_pc = "build_config"
    /\ \E r \in SysFetches(main_build.pc) :
          LET step == BuildStep(main_build, r, SysOverflowChecks)
          IN  /\ main_pc' = CASE step.status = "fetch" -> "build_config"
                              [] step.status = "Ok"    -> "spawn"
                              [] step.status = "Err"   -> "returned_err"
                              [] step.status = "panic" -> "panicked"
              /\ main_build' = IF step.status = "fetch"
                               THEN [pc |-> step.pc, config |-> step.config]
                               ELSE NoBuild
              /\ config' = IF step.status = "Ok" THEN Some(step.config) ELSE None
    /\ UNCHANGED <<resolver, arc_config, binds_idx, server, sig_pc,
                   sig_build, pending, signals_closed, built>>
    /\ UNCHANGED <<signal>>
    /\ UNCHANGED pure_vars
    /\ UNCHANGED exists_vars

\* main.rs 134: build_resolver(&config) reads the forwarders of the startup config
build_resolver(cfg) == Some(cfg.forwarders)

\* main.rs 137: ArcSwap::from_pointee(config.clone())
from_pointee(cfg) == Some(cfg)

\* main.rs 134-147: the resolver, the cell, the handler and the server are made
\* and the signals task is spawned; setup_binds is entered
MainSpawn ==
    /\ main_pc = "spawn"
    /\ resolver' = build_resolver(unwrap(config))
    /\ arc_config' = from_pointee(unwrap(config))
    /\ built' = config
    /\ sig_pc' = "idle"
    /\ server' = NewServer
    /\ binds_idx' = 1
    /\ main_pc' = "setup_binds"
    /\ UNCHANGED <<main_build, config, sig_build, pending, signals_closed>>
    /\ UNCHANGED <<signal>>
    /\ UNCHANGED pure_vars
    /\ UNCHANGED exists_vars

\* main.rs 147, 57-81: one turn of the loop of setup_binds over the binds of the
\* startup config; a panic unwinds main
MainBindStep ==
    /\ main_pc = "setup_binds"
    /\ binds_idx <= Len(unwrap(config).binds)
    /\ \E os_ok \in BOOLEAN :
          LET step == BindStep(server, unwrap(config).binds[binds_idx], os_ok)
          IN  /\ server' = step.server
              /\ IF step.status = "panic"
                 THEN /\ main_pc' = "panicked"
                      /\ sig_pc' = DropRuntime(sig_pc)
                      /\ UNCHANGED binds_idx
                 ELSE /\ binds_idx' = binds_idx + 1
                      /\ UNCHANGED <<main_pc, sig_pc>>
    /\ UNCHANGED <<main_build, config, resolver, arc_config, sig_build, pending,
                   signals_closed, built>>
    /\ UNCHANGED <<signal>>
    /\ UNCHANGED pure_vars
    /\ UNCHANGED exists_vars

\* main.rs 147, 82-91: the loop is over; Ok enters block_until_done, Err leaves
\* main through `?`
MainBindsDone ==
    /\ main_pc = "setup_binds"
    /\ binds_idx > Len(unwrap(config).binds)
    /\ LET res == SetupBindsGate(server.successful_binds_count, Len(unwrap(config).binds))
       IN  /\ main_pc' = IF res = "Ok" THEN "serving" ELSE "returned_err"
           /\ sig_pc' = IF res = "Ok" THEN sig_pc ELSE DropRuntime(sig_pc)
    /\ UNCHANGED <<main_build, config, resolver, arc_config, binds_idx, server, sig_build,
                   pending, signals_closed, built>>
    /\ UNCHANGED <<signal>>
    /\ UNCHANGED pure_vars
    /\ UNCHANGED exists_vars

\* main.rs 150: block_until_done returns Ok, or Err which leaves main through `?`
MainServerDone ==
    /\ main_pc = "serving"
    /\ \E ok \in BOOLEAN :
          /\ main_pc' = IF ok THEN "close" ELSE "returned_err"
          /\ sig_pc' = IF ok THEN sig_pc ELSE DropRuntime(sig_pc)
    /\ UNCHANGED <<main_build, config, resolver, arc_config, binds_idx, server, sig_build,
                   pending, signals_closed, built>>
    /\ UNCHANGED <<signal>>
    /\ UNCHANGED pure_vars
    /\ UNCHANGED exists_vars

\* main.rs 152: signals_handler.close()
MainClose ==
    /\ main_pc = "close"
    /\ signals_closed' = TRUE
    /\ main_pc' = "join"
    /\ UNCHANGED <<main_build, config, resolver, arc_config, binds_idx, server, sig_pc,
                   sig_build, pending, built>>
    /\ UNCHANGED <<signal>>
    /\ UNCHANGED pure_vars
    /\ UNCHANGED exists_vars

\* main.rs 153-155: signals_task.await returns once the task has ended; the
\* JoinError of a panicked task leaves main through `?`
MainJoin ==
    /\ main_pc = "join"
    /\ SigFinished
    /\ main_pc' = IF sig_pc = "finished" THEN "returned_ok" ELSE "returned_err"
    /\ UNCHANGED <<main_build, config, resolver, arc_config, binds_idx, server, sig_pc,
                   sig_build, pending, signals_closed, built>>
    /\ UNCHANGED <<signal>>
    /\ UNCHANGED pure_vars
    /\ UNCHANGED exists_vars

-----------------------------------------------------------------------------
(* handle_signals, the signals and the request handlers *)

\* a registered signal reaches the process; signal-hook keeps one flag per
\* signal, so a signal that is already pending is not queued twice
SignalArrives ==
    /\ main_pc # "start"
    /\ ~Exited
    /\ \E s \in Signal \ pending : pending' = pending \cup {s}
    /\ UNCHANGED <<main_pc, main_build, config, resolver, arc_config, binds_idx, server,
                   sig_pc, sig_build, signals_closed, built>>
    /\ UNCHANGED <<signal>>
    /\ UNCHANGED pure_vars
    /\ UNCHANGED exists_vars

\* SigNext with a SIGUSR1 arm that reloads as the SIGHUP arm does
SigNext_Usr1Reloads ==
    /\ sig_pc = "idle"
    /\ ~Exited
    /\ \E s \in pending :
          /\ pending' = pending \ {s}
          /\ sig_pc' = IF s \in {"SIGHUP", "SIGUSR1"} THEN "build_config" ELSE "idle"
          /\ sig_build' = IF s \in {"SIGHUP", "SIGUSR1"} THEN NewBuild ELSE NoBuild
          /\ signal' = s
    /\ UNCHANGED <<main_pc, main_build, config, resolver, arc_config, binds_idx, server,
                   signals_closed, built>>
    /\ UNCHANGED pure_vars
    /\ UNCHANGED exists_vars

\* main.rs 99-103, 112-119: signals.next() yields a pending signal.  SIGHUP
\* enters build_config; SIGUSR1 and SIGUSR2 are logged and the loop goes back
\* to signals.next()
SigNext ==
    /\ sig_pc = "idle"
    /\ ~Exited
    /\ \E s \in pending :
          /\ pending' = pending \ {s}
          /\ sig_pc' = IF s = "SIGHUP" THEN "build_config" ELSE "idle"
          /\ sig_build' = IF s = "SIGHUP" THEN NewBuild ELSE NoBuild
          /\ signal' = s
    /\ UNCHANGED <<main_pc, main_build, config, resolver, arc_config, binds_idx, server,
                   signals_closed, built>>
    /\ UNCHANGED pure_vars
    /\ UNCHANGED exists_vars

\* main.rs 99, 122: the stream is closed, signals.next() yields None and the
\* task returns
SigStreamEnd ==
    /\ sig_pc = "idle"
    /\ ~Exited
    /\ signals_closed
    /\ sig_pc' = "finished"
    /\ UNCHANGED <<main_pc, main_build, config, resolver, arc_config, binds_idx, server,
                   sig_build, pending, signals_closed, built>>
    /\ UNCHANGED <<signal>>
    /\ UNCHANGED pure_vars
    /\ UNCHANGED exists_vars

\* a store that is not one write: the binds of the old Configuration stay
store_Torn(cell, new_config) == Some([new_config EXCEPT !.binds = unwrap(cell).binds])

\* main.rs 108-109: arc_config.store(Arc::new(new_config)) replaces the content
\* of the cell by the new Configuration
store(cell, new_config) == Some(new_config)

\* Rebuilt without the `else { continue }` of line 104: the cell is written
\* after a build that returned Err too
Rebuilt_OnErr(cell, step) ==
    IF step.status \in {"Ok", "Err"} THEN store(cell, step.config) ELSE cell

\* main.rs 104-110: the cell after build_config has returned or panicked
Rebuilt(cell, step) ==
    IF step.status = "Ok" THEN store(cell, step.config) ELSE cell

\* main.rs 104-111: where the task goes once the fetch has returned
AfterStep(step) ==
    CASE step.status = "fetch" -> "build_config"
      [] step.status = "Ok"    -> "idle"
      [] step.status = "Err"   -> "idle"
      [] step.status = "panic" -> "panicked"

\* main.rs 104-111: one fetch of the build_config of a reload returns
\* SigBuildConfig with a reload that also rebuilds the resolver from the new
\* forwarders
SigBuildConfig_RebuildsResolver ==
    /\ sig_pc = "build_config"
    /\ ~Exited
    /\ \E r \in SysFetches(sig_build.pc) :
          LET step == BuildStep(sig_build, r, SysOverflowChecks)
          IN  /\ sig_pc' = AfterStep(step)
              /\ sig_build' = IF step.status = "fetch"
                              THEN [pc |-> step.pc, config |-> step.config]
                              ELSE NoBuild
              /\ arc_config' = Rebuilt(arc_config, step)
              /\ resolver' = IF step.status = "Ok"
                             THEN build_resolver(step.config)
                             ELSE resolver
              /\ built' = IF step.status = "Ok" THEN Some(step.config) ELSE built
    /\ UNCHANGED <<main_pc, main_build, config, binds_idx, server,
                   pending, signals_closed>>
    /\ UNCHANGED <<signal>>
    /\ UNCHANGED pure_vars
    /\ UNCHANGED exists_vars

SigBuildConfig ==
    /\ sig_pc = "build_config"
    /\ ~Exited
    /\ \E r \in SysFetches(sig_build.pc) :
          LET step == BuildStep(sig_build, r, SysOverflowChecks)
          IN  /\ sig_pc' = AfterStep(step)
              /\ sig_build' = IF step.status = "fetch"
                              THEN [pc |-> step.pc, config |-> step.config]
                              ELSE NoBuild
              /\ arc_config' = Rebuilt(arc_config, step)
              /\ built' = IF step.status = "Ok" THEN Some(step.config) ELSE built
    /\ UNCHANGED <<main_pc, main_build, config, resolver, binds_idx, server,
                   pending, signals_closed>>
    /\ UNCHANGED <<signal>>
    /\ UNCHANGED pure_vars
    /\ UNCHANGED exists_vars

\* ArcSwap::load, by which a request handler reads the cell handed to it at
\* main.rs 140: the content of the cell, whole; a read changes nothing
load(cell) == cell

Next ==
    \/ MainRegisterSignals
    \/ MainBuildManager
    \/ MainBuildConfig
    \/ MainSpawn
    \/ MainBindStep
    \/ MainBindsDone
    \/ MainServerDone
    \/ MainClose
    \/ MainJoin
    \/ SignalArrives
    \/ SigNext
    \/ SigStreamEnd
    \/ SigBuildConfig

Spec == Init /\ [][Next]_vars

-----------------------------------------------------------------------------
(* build_config and setup_binds as functions *)

\* what the store holds under the four keys, and the build profile
ShortInputs ==
    [ blackhole_ips : Fetches(BlackholeEntries),
      matchclasses  : Fetches(MatchclassEntries),
      forwarders    : Fetches(ForwarderEntries),
      binds         : Fetches(BindEntries),
      checks        : BOOLEAN ]

\* stores with a long forwarders set, no blackhole entry and one bind
LongInputs ==
    [ blackhole_ips : {FetchOk(<<>>)},
      matchclasses  : {FetchOk(<<>>)},
      forwarders    : {FetchOk(l) : l \in LongForwarderLists},
      binds         : {FetchOk(<< <<"UDP", "=", "0.0.0.0:53">> >>)},
      checks        : BOOLEAN ]

PureInputs == ShortInputs \cup LongInputs

NotBuilt == [status |-> "none", config |-> EmptyConfig, err |-> "none", requests |-> <<>>]

NotBound == [status |-> "none", server |-> NewServer, attempted |-> 0]

PureInit ==
    /\ main_pc = "start"
    /\ main_build = NoBuild
    /\ config = None
    /\ resolver = None
    /\ arc_config = None
    /\ binds_idx = 0
    /\ server = NewServer
    /\ sig_pc = "not_spawned"
    /\ sig_build = NoBuild
    /\ pending = {}
    /\ signals_closed = FALSE
    /\ built = None
    /\ signal = "none"
    /\ p_pc = "input"
    /\ p_in \in PureInputs
    /\ p_out = NotBuilt
    /\ p_binds = NotBound
    /\ e_pc = "off"
    /\ e_in = NoExistsInput
    /\ e_out = NotAsked

\* redis_mod.rs 29-106: build_config against the store p_in
PureBuild ==
    /\ p_pc = "input"
    /\ p_out' = build_config(p_in, p_in.checks)
    /\ p_pc' = "built"
    /\ UNCHANGED <<p_in, p_binds>>
    /\ UNCHANGED sys_vars
    /\ UNCHANGED exists_vars

\* main.rs 50-92: setup_binds on the Configuration build_config returned
PureSetupBinds ==
    /\ p_pc = "built"
    /\ p_out.status = "Ok"
    /\ \E os \in [1..Len(p_out.config.binds) -> BOOLEAN] :
          p_binds' = setup_binds(p_out.config, os)
    /\ p_pc' = "bound"
    /\ UNCHANGED <<p_in, p_out>>
    /\ UNCHANGED sys_vars
    /\ UNCHANGED exists_vars

NextPure ==
    \/ PureBuild
    \/ PureSetupBinds

SpecPure == PureInit /\ [][NextPure]_vars

-----------------------------------------------------------------------------
(* exists as a function of the store and of its arguments *)

ExistsInputs ==
    [ store     : [keys : SUBSET StoreKeys, mode : StoreModes],
      fullmatch : Fullmatches,
      qtype     : RecordTypes ]

ExistsInit ==
    /\ main_pc = "start"
    /\ main_build = NoBuild
    /\ config = None
    /\ resolver = None
    /\ arc_config = None
    /\ binds_idx = 0
    /\ server = NewServer
    /\ sig_pc = "not_spawned"
    /\ sig_build = NoBuild
    /\ pending = {}
    /\ signals_closed = FALSE
    /\ built = None
    /\ signal = "none"
    /\ p_pc = "off"
    /\ p_in = [blackhole_ips |-> FetchErr, matchclasses |-> FetchErr,
               forwarders |-> FetchErr, binds |-> FetchErr, checks |-> FALSE]
    /\ p_out = NotBuilt
    /\ p_binds = NotBound
    /\ e_pc = "input"
    /\ e_in \in ExistsInputs
    /\ e_out = NotAsked

\* redis_mod.rs 108-129: exists against the store e_in.store
ExistsCall ==
    /\ e_pc = "input"
    /\ e_out' = exists(e_in.store, e_in.fullmatch, e_in.qtype)
    /\ e_pc' = "done"
    /\ UNCHANGED e_in
    /\ UNCHANGED sys_vars
    /\ UNCHANGED pure_vars

NextExists == ExistsCall

SpecExists == ExistsInit /\ [][NextExists]_vars

-----------------------------------------------------------------------------
(* Properties *)

\* the Configurations build_config can return with Ok in the whole-process
\* specification
SysBuilds ==
    { build_config([blackhole_ips |-> b, matchclasses |-> m, forwarders |-> f,
                    binds |-> n], SysOverflowChecks).config :
        <<b, m, f, n>> \in { q \in SysFetches("blackhole_ips") \X SysFetches("matchclasses")
                                   \X SysFetches("forwarders") \X SysFetches("binds") :
                              build_config([blackhole_ips |-> q[1], matchclasses |-> q[2],
                                            forwarders |-> q[3], binds |-> q[4]],
                                           SysOverflowChecks).status = "Ok" } }

\* C1: reload failure isolation.  A step of a reload that panics leaves the
\* cell as it was, and the cell, once made, changes only in the step in which
\* a build_config of the signals task returns Ok, to the Configuration of that
\* build; so a reload that ends in Err or in a panic leaves the Configuration
\* that was active before it.
C1_ReloadFailureIsolation ==
    [][ /\ (sig_pc = "build_config" /\ sig_pc' = "panicked") => arc_config' = arc_config
        /\ (is_some(arc_config) /\ arc_config' # arc_config) =>
              /\ sig_pc = "build_config"
              /\ sig_pc' = "idle"
              /\ \E r \in SysFetches(sig_build.pc) :
                    LET step == BuildStep(sig_build, r, SysOverflowChecks)
                    IN  step.status = "Ok" /\ arc_config' = Some(step.config) ]_vars

\* C1 witness: a reload has published a Configuration other than the startup
\* one, a later reload has failed (the task panicked in it), and the cell
\* still holds the Configuration of the earlier reload
C1_Witness ==
    /\ sig_pc = "panicked"
    /\ is_some(arc_config)
    /\ arc_config # config
    /\ arc_config = built

\* C2: the reload loop ends on shutdown only: the signals task has ended (its
\* loop finished, or it is gone) only if the signal stream was closed; a failed
\* reload never ends it.
C2_LoopEndsOnlyOnShutdown == SigFinished => signals_closed

\* C3: every Configuration build_config returns with Ok has at least one
\* forwarder.
C3_ForwardersNonEmpty ==
    (p_pc # "input" /\ p_out.status = "Ok") => p_out.config.forwarders # <<>>

\* C4: the zero-success gate of setup_binds: when every bind of the
\* Configuration was attempted, setup_binds returns the binding error if and
\* only if no listener was bound.
C4_ZeroSuccessGate ==
    (p_pc = "bound" /\ p_binds.status # "panic") =>
        (p_binds.status = "Err" <=> p_binds.server.successful_binds_count = 0)

\* is_filtering == (blackhole_ips.is_some() && matchclasses.is_some())
FilteringInvariant(cfg) ==
    cfg.is_filtering = (is_some(cfg.blackhole_ips) /\ is_some(cfg.matchclasses))

\* C5: the filtering invariant over the process lifetime: the startup
\* Configuration and whatever a reader loads from the cell, at any time, has
\* is_filtering true exactly when blackhole_ips and matchclasses are both
\* present.
C5_FilteringInvariant ==
    /\ is_some(config) => FilteringInvariant(unwrap(config))
    /\ is_some(load(arc_config)) => FilteringInvariant(unwrap(load(arc_config)))

\* C5 witness: a reload has published a Configuration that filters while the
\* startup Configuration does not
C5_Witness ==
    /\ is_some(arc_config)
    /\ unwrap(arc_config).is_filtering
    /\ ~unwrap(config).is_filtering

\* exactly two blackhole entries were fetched, the first an IPv4 and the
\* second an IPv6 address
TwoValidBlackholes(inp) ==
    /\ inp.blackhole_ips.ok
    /\ Len(inp.blackhole_ips.val) = 2
    /\ is_some(ParseIpv4(inp.blackhole_ips.val[1]))
    /\ is_some(ParseIpv6(inp.blackhole_ips.val[2]))

\* a matchclass set with at least one entry was fetched
SomeMatchclasses(inp) == inp.matchclasses.ok /\ Len(inp.matchclasses.val) > 0

\* C6, as stated: for every build_config that returns Ok, is_filtering is
\* true if and only if two valid blackhole entries and a non-empty matchclass
\* set were fetched, and in every other case is_filtering is false and
\* blackhole_ips and matchclasses are both absent.
C6_FilteringOrBothAbsent ==
    (p_pc # "input" /\ p_out.status = "Ok") =>
        /\ p_out.config.is_filtering <=> (TwoValidBlackholes(p_in) /\ SomeMatchclasses(p_in))
        /\ ~(TwoValidBlackholes(p_in) /\ SomeMatchclasses(p_in)) =>
              /\ ~p_out.config.is_filtering
              /\ p_out.config.blackhole_ips = None
              /\ p_out.config.matchclasses = None

\* C6, amended: for every build_config that returns Ok, is_filtering is true
\* if and only if two valid blackhole entries and a non-empty matchclass set
\* were fetched, and then matchclasses holds the fetched set; in every other
\* case is_filtering is false and matchclasses is absent.  blackhole_ips is
\* absent when the number of blackhole entries is not 2, and holds the parsed
\* pair whenever two valid entries were fetched, with an empty matchclass set
\* too.
C6_FilteringIff ==
    (p_pc # "input" /\ p_out.status = "Ok") =>
        /\ p_out.config.is_filtering <=> (TwoValidBlackholes(p_in) /\ SomeMatchclasses(p_in))
        /\ p_out.config.matchclasses =
              IF p_out.config.is_filtering THEN Some(p_in.matchclasses.val) ELSE None
        /\ p_out.config.blackhole_ips =
              IF TwoValidBlackholes(p_in)
              THEN Some(<<unwrap(ParseIpv4(p_in.blackhole_ips.val[1])),
                          unwrap(ParseIpv6(p_in.blackhole_ips.val[2]))>>)
              ELSE None

\* C6 witness: a build returned Ok after two valid blackhole entries and an
\* empty matchclass set: it does not filter and holds the blackhole pair
C6_Witness ==
    /\ p_out.status = "Ok"
    /\ TwoValidBlackholes(p_in)
    /\ p_in.matchclasses = FetchOk(<<>>)
    /\ ~p_out.config.is_filtering
    /\ is_some(p_out.config.blackhole_ips)

\* C7: two blackhole entries were fetched and one of them does not parse
\* (entry 0 as IPv4, entry 1 as IPv6); the other fetches answer, with a valid
\* forwarder and a bind: build_config returns Ok with filtering disabled.
C7_ParseFailureDisablesFiltering ==
    ( /\ p_pc # "input"
      /\ p_in.blackhole_ips.ok
      /\ Len(p_in.blackhole_ips.val) = 2
      /\ ~TwoValidBlackholes(p_in)
      /\ p_in.matchclasses.ok
      /\ p_in.forwarders.ok
      /\ \E i \in 1..Len(p_in.forwarders.val) : is_some(ParseSocketAddr(p_in.forwarders.val[i]))
      /\ p_in.binds.ok
      /\ p_in.binds.val # <<>> ) =>
        /\ p_out.status = "Ok"
        /\ ~p_out.config.is_filtering

C9_BindsVerbatim ==
    (p_pc # "input") =>
        /\ p_out.status = "Ok" =>
              /\ p_in.binds.ok
              /\ p_out.config.binds # <<>>
              /\ p_out.config.binds = p_in.binds.val
        /\ (Key("binds") \in Range(p_out.requests) /\ p_in.binds = FetchOk(<<>>)) =>
              /\ p_out.status = "Err"
              /\ p_out.err = "SetupBindingError"

\* C9 witness: a build returned Ok with two binds
C9_Witness ==
    /\ p_out.status = "Ok"
    /\ Len(p_in.binds.val) >= 2
    /\ Len(p_out.config.binds) >= 2

\* C10: no bind spec is fatal on its own: setup_binds attempts every bind of
\* the Configuration, and each one ends as a listener or is skipped.
C10_NoBindIsFatal ==
    (p_pc = "bound") =>
        /\ p_binds.status # "panic"
        /\ p_binds.attempted = Len(p_out.config.binds)
        /\ Len(p_binds.server.listeners) + Len(p_binds.server.skipped)
              = Len(p_out.config.binds)

\* C11: shutdown join.  Whenever main has returned after the signals task
\* was spawned, the signal stream was closed and the task had ended before
\* main returned: no reload cycle is dropped with the runtime.
C11_ShutdownJoin ==
    (main_pc \in {"returned_ok", "returned_err"} /\ sig_pc # "not_spawned") =>
        /\ signals_closed
        /\ SigFinished

\* neither the cell, the resolver, the signals task nor a listener exists,
\* and setup_binds has attempted nothing
NothingStarted ==
    /\ arc_config = None
    /\ resolver = None
    /\ sig_pc = "not_spawned"
    /\ server = NewServer

\* C12: the startup gate.  Until the startup build_config has returned Ok
\* nothing is started; whatever is started rests on a Configuration that a
\* complete startup build returned; and when main ends without one (the build
\* returned Err or panicked) nothing was started.
C12_StartupGate ==
    /\ main_pc \in {"start", "build_manager", "build_config"} => NothingStarted
    /\ ~NothingStarted => (is_some(config) /\ unwrap(config) \in SysBuilds)
    /\ (Exited /\ config = None) => NothingStarted

\* C12 witness: the startup build returned Err and main has returned, with a
\* SIGHUP pending that no task will ever serve
C12_Witness ==
    /\ main_pc = "returned_err"
    /\ config = None
    /\ "SIGHUP" \in pending
    /\ NothingStarted

\* the signals that handle_signals only logs
ExtraSignals == {"SIGUSR1", "SIGUSR2"}

\* C13: SIGUSR1 and SIGUSR2 are no-ops.  A step in which the task takes one
\* of them from the stream changes nothing but the stream: the cell, the
\* startup Configuration, the resolver and the listeners are as before, no
\* build_config is entered (no fetch is requested from the store), and the
\* task is back at signals.next().
C13_ExtraSignalsNoOp ==
    [][ (\E s \in ExtraSignals : s \in pending /\ s \notin pending') =>
            /\ signal' \in ExtraSignals
            /\ arc_config' = arc_config
            /\ load(arc_config') = load(arc_config)
            /\ config' = config
            /\ resolver' = resolver
            /\ server' = server
            /\ sig_build = NoBuild /\ sig_build' = NoBuild
            /\ sig_pc = "idle" /\ sig_pc' = "idle"
            /\ signals_closed' = signals_closed ]_vars

\* C13 witness: after a reload published a Configuration that differs from
\* the startup one, the task took SIGUSR1 or SIGUSR2 and is idle again, with
\* the reloaded Configuration still in the cell
C13_Witness ==
    /\ signal \in ExtraSignals
    /\ sig_pc = "idle"
    /\ sig_build = NoBuild
    /\ is_some(arc_config)
    /\ arc_config # config
    /\ "SIGHUP" \in pending

\* C14: the resolver is not rebuilt on reload.  Whenever the resolver exists
\* it is the one built from the forwarders of the startup Configuration,
\* whatever the cell holds.
C14_ResolverFromStartup ==
    is_some(resolver) =>
        /\ is_some(config)
        /\ resolver = build_resolver(unwrap(config))
        /\ unwrap(resolver) = unwrap(config).forwarders

\* C14 witness: a reload has published a Configuration whose forwarders are
\* not those the resolver was built from
C14_Witness ==
    /\ is_some(resolver)
    /\ is_some(arc_config)
    /\ arc_config = built
    /\ unwrap(load(arc_config)).forwarders # unwrap(resolver)
    /\ unwrap(load(arc_config)).forwarders # <<>>
    /\ sig_pc = "idle"

\* the bind specs that setup_binds has handled so far, read back from the
\* server: those it listens on, those it skipped with a warning, and the one
\* whose turn of the loop panicked
AttemptedBinds ==
    {<<l.proto, "=">> \o l.addr : l \in Range(server.listeners)}
        \cup Range(server.skipped)
        \cup (IF main_pc = "panicked" /\ is_some(arc_config)
              THEN {unwrap(config).binds[binds_idx]}
              ELSE {})

\* C15: listeners come from the startup Configuration only.  The signals task
\* is spawned before setup_binds runs, and once setup_binds has ended,
\* whatever reloads ran before or during it, the bind specs it attempted are
\* exactly the binds of the startup Configuration.
C15_ListenersFromStartup ==
    /\ main_pc = "setup_binds" => sig_pc # "not_spawned"
    /\ (is_some(arc_config) /\ main_pc # "setup_binds") =>
           AttemptedBinds = Range(unwrap(config).binds)

\* C16: fetch ordering in build_config.  The first request is for the
\* blackhole_ips set; the matchclasses set is requested only after exactly two
\* blackhole entries were fetched, and then second; when the blackhole count is
\* not 2 the requests after the first are for forwarders and then binds, and
\* none is for matchclasses.
C16_FetchOrdering ==
    (p_pc # "input") =>
        /\ Len(p_out.requests) >= 1
        /\ p_out.requests[1] = Key("blackhole_ips")
        /\ Key("matchclasses") \in Range(p_out.requests) =>
              /\ p_in.blackhole_ips.ok
              /\ Len(p_in.blackhole_ips.val) = 2
              /\ p_out.requests[2] = Key("matchclasses")
        /\ (p_in.blackhole_ips.ok /\ Len(p_in.blackhole_ips.val) # 2) =>
              /\ Key("matchclasses") \notin Range(p_out.requests)
              /\ Len(p_out.requests) \in {2, 3}
              /\ p_out.requests[2] = Key("forwarders")
              /\ Len(p_out.requests) = 3 => p_out.requests[3] = Key("binds")
              /\ p_out.status = "Ok" => Len(p_out.requests) = 3

\* C16 witness: the store holds one blackhole entry and a matchclass; the
\* build returned Ok after asking for blackhole_ips, forwarders and binds
C16_Witness ==
    /\ p_pc # "input"
    /\ p_out.status = "Ok"
    /\ p_in.blackhole_ips.ok
    /\ Len(p_in.blackhole_ips.val) = 1
    /\ p_in.matchclasses = FetchOk(<<"ads">>)
    /\ p_out.requests = <<Key("blackhole_ips"), Key("forwarders"), Key("binds")>>
    /\ ~p_out.config.is_filtering

\* the positions of the fetched entries that parse as a socket address
ParsableAt(list) == {i \in 1..Len(list) : is_some(ParseSocketAddr(list[i]))}

\* C17: forwarder filtering.  The forwarders of a Configuration returned by a
\* successful build_config are the fetched entries that parse as a socket
\* address, in fetched order: there are as many forwarders as parsable
\* entries, and a parsable entry with k - 1 parsable entries before it is the
\* k-th forwarder, so every unparsable entry is dropped and no parsable entry
\* is lost or duplicated.
C17_ForwarderFiltering ==
    (p_pc # "input" /\ p_out.status = "Ok") =>
        LET list == p_in.forwarders.val
            idx == ParsableAt(list)
            forwarders == p_out.config.forwarders
        IN  /\ Len(forwarders) = Cardinality(idx)
            /\ \A i \in idx :
                  forwarders[Cardinality({j \in idx : j <= i})]
                      = unwrap(ParseSocketAddr(list[i]))

\* C17 witness: an unparsable entry (no port) and then a parsable one were
\* fetched, and the build returned Ok with the parsable one alone
C17_Witness ==
    /\ p_pc # "input"
    /\ p_out.status = "Ok"
    /\ p_in.forwarders = FetchOk(<<"9.9.9.9", "[::1]:5353">>)
    /\ Len(p_out.config.forwarders) = 1
    /\ p_out.config.forwarders[1] = unwrap(ParseSocketAddr("[::1]:5353"))

\* the arguments of exists name a query type of A or AAAA
QtypeName(qtype) == IF qtype = "RecordType::A" THEN "A" ELSE "AAAA"

\* how many of the lookup key and the record-type name the store holds
CountReturned(inp) ==
    Cardinality({i \in 1..2 : <<inp.fullmatch, QtypeName(inp.qtype)>>[i] \in inp.store.keys})

\* C18: the store existence check.  For a query type of A or AAAA, exists
\* sends one EXISTS command naming the lookup key and the record-type name;
\* when the store replies with its count, exists returns Ok(true) if the count
\* is greater than zero and Ok(false) if it is zero; when the command fails or
\* the reply does not decode, exists returns Err, never a match.
C18_ExistsIsCountPositive ==
    (e_pc = "done" /\ e_in.qtype \in {"RecordType::A", "RecordType::AAAA"}) =>
        /\ e_out.requests = << <<"EXISTS", e_in.fullmatch, QtypeName(e_in.qtype)>> >>
        /\ e_in.store.mode = "reply" =>
              /\ e_out.status = "Ok"
              /\ e_out.val <=> (CountReturned(e_in) > 0)
        /\ e_in.store.mode # "reply" =>
              /\ e_out.status = "Err"
              /\ ~e_out.val

\* C18 witness: the store holds both the lookup key and the key named AAAA,
\* replies 2, and exists returned Ok(true)
C18_Witness ==
    /\ e_pc = "done"
    /\ e_in.qtype = "RecordType::AAAA"
    /\ e_in.store.mode = "reply"
    /\ CountReturned(e_in) = 2
    /\ e_out.status = "Ok"
    /\ e_out.val

\* C19: forwarder counting is exact for every set size.  Once the forwarders
\* were fetched, build_config returns the forwarders error only if the fetched
\* set is empty, and with at least one fetched entry, one of them valid, the
\* build neither fails nor panics in the forwarders step: it goes on to fetch
\* the binds.
C19_ForwarderCountExact ==
    ( /\ p_pc # "input"
      /\ Key("forwarders") \in Range(p_out.requests)
      /\ p_in.forwarders.ok ) =>
        /\ (p_out.status = "Err" /\ p_out.err = "SetupForwardersError") =>
              Len(p_in.forwarders.val) = 0
        /\ (Len(p_in.forwarders.val) >= 1 /\ ParsableAt(p_in.forwarders.val) # {}) =>
              Key("binds") \in Range(p_out.requests)

=============================================================================
